---- MODULE Spec2Model ----
(***************************************************************************)
(* A model of planner.py: the slot codec (Disciplina.parse_codes) and the  *)
(* scheduling engine (CourseScheduler).  Text is a sequence of one-char    *)
(* strings; a time slot is the three-character text f"{prefix}{d}".        *)
(* A course is identified by its position in self.disciplinas (the code    *)
(* compares and hashes Disciplina objects by identity).                    *)
(***************************************************************************)
EXTENDS Integers, Sequences, FiniteSets, TLC

VARIABLES
    csv_exists,       \* whether self.csv_file is a file that open() finds
    csv_file,         \* the rows of self.csv_file, in file order
    selections_file,  \* the content of self.selections_file on disk
    disciplinas,      \* self.disciplinas
    occupied_by,      \* the map returned by the last update_availability()
    call,             \* the last CourseScheduler call: operation, argument, result
    query             \* the last pure query: function, input, output

vars == <<csv_exists, csv_file, selections_file, disciplinas, occupied_by, call, query>>

\* ---------------------------------------------------------------- bounds

\* Longest input text given to parse_codes, find_by_time_code and fuzzy_search.
MaxLen == 4

\* Most rows in the CSV file.
MaxCourses == 3

\* ------------------------------------------------------ character classes

DayChars == {"2", "3", "4", "5", "6", "7"}

PeriodChars == {"M", "T", "N"}

DigitChars == {"0", "1", "2", "3", "4", "5", "6", "7", "8", "9"}

HourChars == {"1", "2", "3", "4", "5", "6"}

Whitespace == {" "}

\* ------------------------------------------------------------ Slot codec

\* The end of the longest run of characters of class cls that starts at s[i].
RECURSIVE RunEnd(_, _, _)
RunEnd(s, i, cls) ==
    IF i + 1 <= Len(s) /\ s[i + 1] \in cls THEN RunEnd(s, i + 1, cls) ELSE i

\* str.split(): the maximal runs of non-whitespace characters, in order.
RECURSIVE SplitFrom(_, _, _, _)
SplitFrom(s, i, cur, acc) ==
    IF i > Len(s)
    THEN IF cur = <<>> THEN acc ELSE Append(acc, cur)
    ELSE IF s[i] \in Whitespace
         THEN SplitFrom(s, i + 1, <<>>, IF cur = <<>> THEN acc ELSE Append(acc, cur))
         ELSE SplitFrom(s, i + 1, Append(cur, s[i]), acc)

split(s) == SplitFrom(s, 1, <<>>, <<>>)

\* pattern.findall(part) for r"([2-7][MTN])(\d+)": the leftmost, greedy,
\* non-overlapping matches from position i on, as (prefix, digits) pairs.
RECURSIVE findall_from(_, _)
findall_from(s, i) ==
    IF i + 2 > Len(s)
    THEN <<>>
    ELSE IF s[i] \in DayChars /\ s[i + 1] \in PeriodChars /\ s[i + 2] \in DigitChars
         THEN LET j == RunEnd(s, i + 2, DigitChars)
              IN  <<[prefix |-> SubSeq(s, i, i + 1), digits |-> SubSeq(s, i + 2, j)]>>
                  \o findall_from(s, j + 1)
         ELSE findall_from(s, i + 1)

findall(part) == findall_from(part, 1)

\* A variant of parse_codes that keeps the first digit of each match only.
parse_codes_first_digit(code_str) ==
    IF code_str = <<>>
    THEN {}
    ELSE LET parts == split(code_str)
         IN  UNION { UNION { { findall(parts[p])[m].prefix
                               \o <<findall(parts[p])[m].digits[1]>> }
                             : m \in DOMAIN findall(parts[p]) }
                     : p \in DOMAIN parts }

\* Disciplina.parse_codes: one slot prefix+d for every digit d of every match
\* in every whitespace-separated part; the result is a set.
parse_codes(code_str) ==
    IF code_str = <<>>
    THEN {}
    ELSE LET parts == split(code_str)
         IN  UNION { UNION { { findall(parts[p])[m].prefix
                               \o <<findall(parts[p])[m].digits[k]>>
                               : k \in DOMAIN findall(parts[p])[m].digits }
                             : m \in DOMAIN findall(parts[p]) }
                     : p \in DOMAIN parts }

\* Disciplina.__init__: the fields of a row the engine reads, with the parsed
\* slots; a new course is not selected and available.
Disciplina(row) ==
    [name      |-> row.name,
     codigo    |-> row.codigo,
     slots     |-> parse_codes(row.horario),
     selected  |-> FALSE,
     available |-> TRUE]

\* ------------------------------------------------------ Scheduling engine

\* The positions of the list ds, in list order (the order of `for d in`).
positions(ds) == [k \in 1..Len(ds) |-> k]

Range(f) == { f[x] : x \in DOMAIN f }

\* A variant of the local set `occupied` that also counts the slots of the
\* courses flagged as not available.
occupied_or_unavailable(ds) ==
    UNION { ds[i].slots : i \in { j \in DOMAIN ds : ds[j].selected \/ ~ds[j].available } }

\* The slots of the selected courses (the local set `occupied`).
occupied(ds) == UNION { ds[i].slots : i \in { j \in DOMAIN ds : ds[j].selected } }

\* The local map `occupied_by` of update_availability: each occupied slot with
\* the selected courses that hold it, in list order.
occupation_map(ds) ==
    [slot \in occupied(ds) |->
        LET Holds(i) == ds[i].selected /\ slot \in ds[i].slots
        IN  SelectSeq(positions(ds), Holds)]

\* A variant of the availability pass that ignores the selected flag.
availability_disjoint_only(ds) ==
    [i \in DOMAIN ds |->
        [ds[i] EXCEPT !.available = (ds[i].slots \cap occupied(ds) = {})]]

\* The second loop of update_availability: every course's available flag.
availability(ds) ==
    [i \in DOMAIN ds |->
        [ds[i] EXCEPT !.available =
            (ds[i].selected \/ ds[i].slots \cap occupied(ds) = {})]]

\* CourseScheduler.update_availability: the courses with their flags
\* recomputed, and the occupation map it returns.
update_availability(ds) ==
    [disciplinas |-> availability(ds), occupied_by |-> occupation_map(ds)]

\* A variant of get_conflicts without the codigo test.
get_conflicts_any_code(ds, i, occ) ==
    LET hit  == ds[i].slots \cap DOMAIN occ
        keys == { j \in DOMAIN ds : \E slot \in hit : j \in Range(occ[slot]) }
    IN  [j \in keys |-> { slot \in hit : j \in Range(occ[slot]) }]

\* A variant of get_conflicts that reports only the courses listed before the
\* candidate in self.disciplinas.
get_conflicts_earlier_only(ds, i, occ) ==
    LET hit  == ds[i].slots \cap DOMAIN occ
        keys == { j \in DOMAIN ds :
                    /\ j < i
                    /\ \E slot \in hit :
                          j \in Range(occ[slot]) /\ ds[j].codigo # ds[i].codigo }
    IN  [j \in keys |-> { slot \in hit : j \in Range(occ[slot]) }]

\* CourseScheduler.get_conflicts(disciplina, occupied_by): for every slot of
\* the candidate found in the map, every course listed there with another
\* codigo, with the slots it was found under.
get_conflicts(ds, i, occ) ==
    LET hit  == ds[i].slots \cap DOMAIN occ
        keys == { j \in DOMAIN ds :
                    \E slot \in hit :
                        j \in Range(occ[slot]) /\ ds[j].codigo # ds[i].codigo }
    IN  [j \in keys |-> { slot \in hit : j \in Range(occ[slot]) }]

\* CourseScheduler.print_conflicts: its return value (the printing aside).
print_conflicts(ds, i, occ) == DOMAIN get_conflicts(ds, i, occ) # {}

\* The list save_selections dumps: the names of the selected courses.
selected_names(ds) ==
    LET Sel(i) == ds[i].selected
        idx    == SelectSeq(positions(ds), Sel)
    IN  [k \in DOMAIN idx |-> ds[idx[k]].name]

\* What a write of self.selections_file can come to: the dump succeeds, open()
\* raises (the file is left as it was), or the dump raises after open()
\* truncated the file (the file no longer holds JSON).
WriteOutcomes == {"ok", "open_error", "dump_error"}

NoFile == [state |-> "absent", names |-> <<>>]

CorruptFile == [state |-> "corrupt", names |-> <<>>]

JsonFile(names) == [state |-> "json", names |-> names]

\* A variant of save_selections that dumps every selected name once.
save_selections_unique(ds, file, outcome) ==
    IF outcome = "ok"
    THEN LET names    == selected_names(ds)
             First(k) == \A l \in 1..(k - 1) : names[l] # names[k]
             idx      == SelectSeq(positions(names), First)
         IN  JsonFile([k \in DOMAIN idx |-> names[idx[k]]])
    ELSE IF outcome = "open_error" THEN file
    ELSE CorruptFile

\* CourseScheduler.save_selections: the file after the call; an exception is
\* printed and swallowed.
save_selections(ds, file, outcome) ==
    IF outcome = "ok" THEN JsonFile(selected_names(ds))
    ELSE IF outcome = "open_error" THEN file
    ELSE CorruptFile

\* A variant of the selection step that looks the codigo up in the saved list.
apply_selections_by_code(ds, file) ==
    IF file.state = "json"
    THEN [i \in DOMAIN ds |->
            [ds[i] EXCEPT !.selected = (ds[i].codigo \in Range(file.names))]]
    ELSE ds

\* The selection step of load_data: with an existing file that holds a JSON
\* list, every course whose name is in the list is selected; a missing file
\* or one json.load rejects selects nothing.
apply_selections(ds, file) ==
    IF file.state = "json"
    THEN [i \in DOMAIN ds |->
            [ds[i] EXCEPT !.selected = (ds[i].name \in Range(file.names))]]
    ELSE ds

\* CourseScheduler.load_data on an existing CSV file: the courses and the
\* occupation map of the closing update_availability().
load_data(rows, file) ==
    update_availability(
        apply_selections([i \in DOMAIN rows |-> Disciplina(rows[i])], file))

NoCall == [op |-> "none", arg |-> 0, ret |-> FALSE, wr |-> "none"]

NoQuery == [fn |-> "none", input |-> <<>>, courses |-> <<>>, slots |-> {},
            error |-> FALSE]

\* A variant of find_by_time_code that keeps the courses with no class on the
\* token's day as well.
find_by_time_code_keep_empty(ds, time_code) ==
    IF ~(Len(time_code) >= 3 /\ time_code[1] \in DayChars
         /\ time_code[2] \in PeriodChars /\ time_code[3] \in HourChars)
    THEN [courses |-> <<>>, error |-> TRUE]
    ELSE LET hours      == SubSeq(time_code, 3, RunEnd(time_code, 3, HourChars))
             time_slots == { <<time_code[1], time_code[2], hours[k]>> : k \in DOMAIN hours }
             day_slots(i) == { slot \in ds[i].slots : slot[1] = time_code[1] }
             Keep(i)    == day_slots(i) \subseteq time_slots
         IN  [courses |-> SelectSeq(positions(ds), Keep), error |-> FALSE]

\* CourseScheduler.find_by_time_code: pattern.match anchors r"([2-7])([MTN])([1-6]+)"
\* at the start of time_code only; the courses whose slots of the token's day
\* are all among the token's slots, in list order, and whether an error
\* message is returned.
find_by_time_code(ds, time_code) ==
    IF ~(Len(time_code) >= 3 /\ time_code[1] \in DayChars
         /\ time_code[2] \in PeriodChars /\ time_code[3] \in HourChars)
    THEN [courses |-> <<>>, error |-> TRUE]
    ELSE LET hours      == SubSeq(time_code, 3, RunEnd(time_code, 3, HourChars))
             time_slots == { <<time_code[1], time_code[2], hours[k]>> : k \in DOMAIN hours }
             day_slots(i) == { slot \in ds[i].slots : slot[1] = time_code[1] }
             Keep(i)    == day_slots(i) # {} /\ day_slots(i) \subseteq time_slots
         IN  [courses |-> SelectSeq(positions(ds), Keep), error |-> FALSE]

\* ------------------------------------------------------------ the inputs

\* The texts of at most n characters over the alphabet chars.
Texts(chars, n) == UNION { [1..k -> chars] : k \in 0..n }

\* Rows of the CSV file: two courses that share the slot 2M2, a second section
\* of the first course (same codigo and name, other slots), and a course that
\* shares a slot with that section only.
RowPool ==
    { [name |-> "SD",  codigo |-> "CIN0130", horario |-> <<"2", "M", "1", "2">>],
      [name |-> "ALG", codigo |-> "CIN0131", horario |-> <<"2", "M", "2", "3">>],
      [name |-> "SD",  codigo |-> "CIN0130",
       horario |-> <<"3", "T", "4", " ", "2", "M", "3">>],
      [name |-> "LOG", codigo |-> "CIN0132", horario |-> <<"3", "T", "4", "5">>] }

\* The CSV files: up to MaxCourses different rows of the pool, in any order.
Catalogs ==
    UNION { { rows \in [1..n -> RowPool] :
                \A a, b \in 1..n : a # b => rows[a] # rows[b] }
            : n \in 0..MaxCourses }

\* The selection files a run can start from: none, one that is not JSON, or the
\* list of names some selection of the rows would have been saved as.
InitialFiles(rows) ==
    {NoFile, CorruptFile}
    \cup { JsonFile(LET In(i) == i \in S
                        idx   == SelectSeq(positions(rows), In)
                    IN  [k \in DOMAIN idx |-> rows[idx[k]].name])
           : S \in SUBSET DOMAIN rows }

\* ------------------------------------------------------------- the engine

\* CourseScheduler.__init__: load_data over the CSV rows and the selection file.
Init ==
    \E rows \in Catalogs :
        \E file \in InitialFiles(rows) :
            /\ csv_exists = TRUE
            /\ csv_file = rows
            /\ selections_file = file
            /\ disciplinas = load_data(rows, file).disciplinas
            /\ occupied_by = load_data(rows, file).occupied_by
            /\ call = [op |-> "load", arg |-> 0, ret |-> TRUE, wr |-> "none"]
            /\ query = NoQuery

\* A variant of add_course with an override path: conflicts are ignored.
add_course_override(i) ==
    /\ i \in DOMAIN disciplinas
    /\ UNCHANGED <<csv_exists, csv_file, query>>
    /\ IF disciplinas[i].selected
       THEN /\ call' = [op |-> "add", arg |-> i, ret |-> FALSE, wr |-> "none"]
            /\ UNCHANGED <<disciplinas, occupied_by, selections_file>>
       ELSE \E outcome \in WriteOutcomes :
                LET u == update_availability(
                            [disciplinas EXCEPT ![i].selected = TRUE])
                IN  /\ disciplinas' = u.disciplinas
                    /\ occupied_by' = u.occupied_by
                    /\ selections_file' =
                          save_selections(u.disciplinas, selections_file, outcome)
                    /\ call' = [op |-> "add", arg |-> i, ret |-> TRUE, wr |-> outcome]

\* A variant of add_course without the test of disciplina.selected.
add_course_unguarded(i) ==
    /\ i \in DOMAIN disciplinas
    /\ UNCHANGED <<csv_exists, csv_file, query>>
    /\ LET before == update_availability(disciplinas)
       IN  IF print_conflicts(before.disciplinas, i, before.occupied_by)
           THEN /\ disciplinas' = before.disciplinas
                /\ occupied_by' = before.occupied_by
                /\ call' = [op |-> "add", arg |-> i, ret |-> FALSE, wr |-> "none"]
                /\ UNCHANGED selections_file
           ELSE \E outcome \in WriteOutcomes :
                    LET u == update_availability(
                                [before.disciplinas EXCEPT ![i].selected = TRUE])
                    IN  /\ disciplinas' = u.disciplinas
                        /\ occupied_by' = u.occupied_by
                        /\ selections_file' =
                              save_selections(u.disciplinas, selections_file, outcome)
                        /\ call' = [op |-> "add", arg |-> i, ret |-> TRUE,
                                    wr |-> outcome]

\* A variant of add_course that leaves out the update_availability() after
\* the course is selected.
add_course_stale(i) ==
    /\ i \in DOMAIN disciplinas
    /\ UNCHANGED <<csv_exists, csv_file, query>>
    /\ IF disciplinas[i].selected
       THEN /\ call' = [op |-> "add", arg |-> i, ret |-> FALSE, wr |-> "none"]
            /\ UNCHANGED <<disciplinas, occupied_by, selections_file>>
       ELSE LET before == update_availability(disciplinas)
            IN  IF print_conflicts(before.disciplinas, i, before.occupied_by)
                THEN /\ disciplinas' = before.disciplinas
                     /\ occupied_by' = before.occupied_by
                     /\ call' = [op |-> "add", arg |-> i, ret |-> FALSE, wr |-> "none"]
                     /\ UNCHANGED selections_file
                ELSE \E outcome \in WriteOutcomes :
                         LET ds == [before.disciplinas EXCEPT ![i].selected = TRUE]
                         IN  /\ disciplinas' = ds
                             /\ occupied_by' = before.occupied_by
                             /\ selections_file' =
                                   save_selections(ds, selections_file, outcome)
                             /\ call' = [op |-> "add", arg |-> i, ret |-> TRUE,
                                         wr |-> outcome]

\* CourseScheduler.add_course(self.disciplinas[i]).
add_course(i) ==
    /\ i \in DOMAIN disciplinas
    /\ UNCHANGED <<csv_exists, csv_file, query>>
    /\ IF disciplinas[i].selected
       THEN /\ call' = [op |-> "add", arg |-> i, ret |-> FALSE, wr |-> "none"]
            /\ UNCHANGED <<disciplinas, occupied_by, selections_file>>
       ELSE LET before == update_availability(disciplinas)
            IN  IF print_conflicts(before.disciplinas, i, before.occupied_by)
                THEN /\ disciplinas' = before.disciplinas
                     /\ occupied_by' = before.occupied_by
                     /\ call' = [op |-> "add", arg |-> i, ret |-> FALSE, wr |-> "none"]
                     /\ UNCHANGED selections_file
                ELSE \E outcome \in WriteOutcomes :
                         LET u == update_availability(
                                     [before.disciplinas EXCEPT ![i].selected = TRUE])
                         IN  /\ disciplinas' = u.disciplinas
                             /\ occupied_by' = u.occupied_by
                             /\ selections_file' =
                                   save_selections(u.disciplinas, selections_file, outcome)
                             /\ call' = [op |-> "add", arg |-> i, ret |-> TRUE,
                                         wr |-> outcome]

\* A variant of remove_course that clears every section of the course's codigo.
remove_course_by_code(i) ==
    /\ i \in DOMAIN disciplinas
    /\ UNCHANGED <<csv_exists, csv_file, query>>
    /\ IF ~disciplinas[i].selected
       THEN /\ call' = [op |-> "remove", arg |-> i, ret |-> FALSE, wr |-> "none"]
            /\ UNCHANGED <<disciplinas, occupied_by, selections_file>>
       ELSE \E outcome \in WriteOutcomes :
                LET u == update_availability(
                            [j \in DOMAIN disciplinas |->
                                IF disciplinas[j].codigo = disciplinas[i].codigo
                                THEN [disciplinas[j] EXCEPT !.selected = FALSE]
                                ELSE disciplinas[j]])
                IN  /\ disciplinas' = u.disciplinas
                    /\ occupied_by' = u.occupied_by
                    /\ selections_file' =
                          save_selections(u.disciplinas, selections_file, outcome)
                    /\ call' = [op |-> "remove", arg |-> i, ret |-> TRUE,
                                wr |-> outcome]

\* CourseScheduler.remove_course(self.disciplinas[i]).
remove_course(i) ==
    /\ i \in DOMAIN disciplinas
    /\ UNCHANGED <<csv_exists, csv_file, query>>
    /\ IF ~disciplinas[i].selected
       THEN /\ call' = [op |-> "remove", arg |-> i, ret |-> FALSE, wr |-> "none"]
            /\ UNCHANGED <<disciplinas, occupied_by, selections_file>>
       ELSE \E outcome \in WriteOutcomes :
                LET u == update_availability(
                            [disciplinas EXCEPT ![i].selected = FALSE])
                IN  /\ disciplinas' = u.disciplinas
                    /\ occupied_by' = u.occupied_by
                    /\ selections_file' =
                          save_selections(u.disciplinas, selections_file, outcome)
                    /\ call' = [op |-> "remove", arg |-> i, ret |-> TRUE,
                                wr |-> outcome]

\* A new run of the program: CourseScheduler(...) over the same CSV rows and
\* the selection file as it is on disk.
restart ==
    /\ csv_exists
    /\ disciplinas' = load_data(csv_file, selections_file).disciplinas
    /\ occupied_by' = load_data(csv_file, selections_file).occupied_by
    /\ call' = [op |-> "load", arg |-> 0, ret |-> TRUE, wr |-> "none"]
    /\ UNCHANGED <<csv_exists, csv_file, selections_file, query>>

Next ==
    \/ \E i \in DOMAIN disciplinas : add_course(i)
    \/ \E i \in DOMAIN disciplinas : remove_course(i)
    \/ restart

Spec == Init /\ [][Next]_vars

\* --------------------------------------- the engine, from a first run on

\* The first run of the program: there is no selection file yet.
InitFresh ==
    \E rows \in Catalogs :
        /\ csv_exists = TRUE
        /\ csv_file = rows
        /\ selections_file = NoFile
        /\ disciplinas = load_data(rows, NoFile).disciplinas
        /\ occupied_by = load_data(rows, NoFile).occupied_by
        /\ call = [op |-> "load", arg |-> 0, ret |-> TRUE, wr |-> "none"]
        /\ query = NoQuery

SpecFresh == InitFresh /\ [][Next]_vars

\* ------------------------------------------------ the construction, alone

\* A variant of the start in which a selection file that is not JSON ends the
\* process as well (no try around json.load).
load_data_exits_on_bad_file(exists, file) == ~exists \/ file.state = "corrupt"

\* Whether load_data ends the process: open(self.csv_file) raises
\* FileNotFoundError and sys.exit(1) is called; every exception of the
\* selection file is caught and printed.
load_data_exits(exists, file) == ~exists

\* The files a program start can find: a CSV file or none, and a selection file.
InitLoad ==
    \E exists \in BOOLEAN :
        \E rows \in (IF exists THEN Catalogs ELSE {<<>>}) :
            \E file \in InitialFiles(rows) :
                /\ csv_exists = exists
                /\ csv_file = rows
                /\ selections_file = file
                /\ disciplinas = <<>>
                /\ occupied_by = occupation_map(<<>>)
                /\ call = NoCall
                /\ query = NoQuery

\* CourseScheduler(csv_file, selections_file): load_data runs once and either
\* ends the process with status 1 or loads the courses and the selection.
construct ==
    /\ call.op = "none"
    /\ IF load_data_exits(csv_exists, selections_file)
       THEN /\ call' = [op |-> "exit", arg |-> 1, ret |-> FALSE, wr |-> "none"]
            /\ UNCHANGED <<disciplinas, occupied_by>>
       ELSE /\ disciplinas' = load_data(csv_file, selections_file).disciplinas
            /\ occupied_by' = load_data(csv_file, selections_file).occupied_by
            /\ call' = [op |-> "load", arg |-> 0, ret |-> TRUE, wr |-> "none"]
    /\ UNCHANGED <<csv_exists, csv_file, selections_file, query>>

NextLoad == construct

SpecLoad == InitLoad /\ [][NextLoad]_vars

\* ------------------------------------------------- the slot codec, alone

\* The characters of the texts given to parse_codes: day digits (2 is an hour
\* digit as well, 7 is not), period letters, an hour digit that is no day (1),
\* a digit that is neither (0), a letter of no class, and a blank.
ParseChars == {"2", "7", "M", "T", "1", "0", "x", " "}

InitParse ==
    \E code_str \in Texts(ParseChars, MaxLen) :
        /\ csv_exists = TRUE
        /\ csv_file = <<>>
        /\ selections_file = NoFile
        /\ disciplinas = load_data(<<>>, NoFile).disciplinas
        /\ occupied_by = load_data(<<>>, NoFile).occupied_by
        /\ call = NoCall
        /\ query = [NoQuery EXCEPT !.input = code_str]

\* Disciplina.parse_codes(code_str) is called on the drawn text.
ParseCodes ==
    /\ query.fn = "none"
    /\ query' = [query EXCEPT !.fn = "parse_codes",
                              !.slots = parse_codes(query.input)]
    /\ UNCHANGED <<csv_exists, csv_file, selections_file, disciplinas, occupied_by, call>>

NextParse == ParseCodes

SpecParse == InitParse /\ [][NextParse]_vars

\* ------------------------------------------------ the time-code search

\* The characters of the texts given to find_by_time_code.
TimeChars == {"1", "2", "3", "M", "T", "7", "x"}

\* A course list for the search: a course inside 2M12, one that reaches beyond
\* it, one with classes on two days, one with no class on day 2, one with no
\* class at all, and one on day 2 in another period.
FindRows ==
    << [name |-> "SUB",  codigo |-> "CIN0133", horario |-> <<"2", "M", "1">>],
       [name |-> "SUP",  codigo |-> "CIN0134", horario |-> <<"2", "M", "1", "3">>],
       [name |-> "TWO",  codigo |-> "CIN0135",
        horario |-> <<"2", "M", "1", "2", " ", "3", "T", "4">>],
       [name |-> "LOG",  codigo |-> "CIN0132", horario |-> <<"3", "T", "4", "5">>],
       [name |-> "NONE", codigo |-> "CIN0136", horario |-> <<>>],
       [name |-> "AFT",  codigo |-> "CIN0137", horario |-> <<"2", "T", "1">>] >>

FindCatalogs ==
    { FindRows, [k \in DOMAIN FindRows |-> FindRows[Len(FindRows) + 1 - k]] }

InitFind ==
    \E rows \in FindCatalogs :
        \E time_code \in Texts(TimeChars, MaxLen) :
            /\ csv_exists = TRUE
            /\ csv_file = rows
            /\ selections_file = NoFile
            /\ disciplinas = load_data(rows, NoFile).disciplinas
            /\ occupied_by = load_data(rows, NoFile).occupied_by
            /\ call = [op |-> "load", arg |-> 0, ret |-> TRUE, wr |-> "none"]
            /\ query = [NoQuery EXCEPT !.input = time_code]

\* CourseScheduler.find_by_time_code(time_code) is called on the drawn text.
FindByTimeCode ==
    /\ query.fn = "none"
    /\ query' = [query EXCEPT
                    !.fn = "find_by_time_code",
                    !.courses = find_by_time_code(disciplinas, query.input).courses,
                    !.error = find_by_time_code(disciplinas, query.input).error]
    /\ UNCHANGED <<csv_exists, csv_file, selections_file, disciplinas, occupied_by, call>>

NextFind == FindByTimeCode

SpecFind == InitFind /\ [][NextFind]_vars

\* --------------------------------------------------- the name search

\* The number of results fuzzy_search keeps (results[:10]).
TopResults == 10

\* The cutoff 0.3 of fuzzy_search as the fraction CutoffNum / CutoffDen.
CutoffNum == 3

CutoffDen == 10

\* str.upper() on the letters of the texts used here.
upper(s) ==
    [k \in DOMAIN s |->
        IF s[k] = "a" THEN "A" ELSE IF s[k] = "b" THEN "B" ELSE s[k]]

\* a in b for two words: a occurs in b as a run of consecutive characters.
is_substring(a, b) ==
    \E k \in 0..(Len(b) - Len(a)) : SubSeq(b, k + 1, k + Len(a)) = a

\* Python floats are IEEE-754 doubles: 53 significant bits, every operation
\* rounded to the nearest double, a tie to the one with an even last bit. A
\* float that is zero or lies in [2^-7, 2^13), which covers every score of the
\* texts used here, is held as the integer value * 2^60, written in four digits
\* of base 2^20 with the most significant first; each double of that range is
\* such an integer, and two floats are equal when their digits are.
Base == 2^20

\* The digits after the carries of digit-wise sums are passed upwards.
carry(x) ==
    LET c3 == x[3] + (x[4] \div Base)
        c2 == x[2] + (c3 \div Base)
    IN  <<x[1] + (c2 \div Base), c2 % Base, c3 % Base, x[4] % Base>>

\* The number of bits of a digit.
bit_length(n) == Cardinality({ k \in 0..19 : 2^k <= n })

\* The double nearest to the exact value x * 2^-60 (a little more than that
\* when sticky holds): the bits below the 53rd significant one are dropped, and
\* the last kept bit is raised when they are more than half of it, or exactly
\* half and the kept part is odd.
float_round(x, sticky) ==
    LET top  == IF x[1] > 0 THEN 1 ELSE IF x[2] > 0 THEN 2 ELSE IF x[3] > 0 THEN 3 ELSE 4
        len  == bit_length(x[top]) + 20 * (4 - top)
        unit == 2^(len - 53)
        low  == x[4] % unit
        half == unit \div 2
        odd  == IF unit = Base THEN x[3] % 2 = 1 ELSE (x[4] \div unit) % 2 = 1
        up   == low > half \/ (low = half /\ (sticky \/ odd))
    IN  IF len <= 53
        THEN x
        ELSE carry(<<x[1], x[2], x[3], x[4] - low + (IF up THEN unit ELSE 0)>>)

\* int / int, true division: a / b for a >= 0 and b > 0.
float_of_ratio(a, b) ==
    LET r0 == a % b
        r1 == (r0 * Base) % b
        r2 == (r1 * Base) % b
    IN  float_round(<<a \div b, (r0 * Base) \div b, (r1 * Base) \div b, (r2 * Base) \div b>>,
                    (r2 * Base) % b # 0)

\* float + float (the int 0 that match_score starts from is the float zero).
float_add(x, y) ==
    float_round(carry(<<x[1] + y[1], x[2] + y[2], x[3] + y[3], x[4] + y[4]>>), FALSE)

\* float / int, for n > 0.
float_div(x, n) ==
    LET t2 == (x[1] % n) * Base + x[2]
        t3 == (t2 % n) * Base + x[3]
        t4 == (t3 % n) * Base + x[4]
    IN  float_round(<<x[1] \div n, t2 \div n, t3 \div n, t4 \div n>>, t4 % n # 0)

\* x > y on floats.
greater(x, y) ==
    \E k \in 1..4 : x[k] > y[k] /\ \A j \in 1..(k - 1) : x[j] = y[j]

float_zero == <<0, 0, 0, 0>>

\* The literal 0.3: the double nearest to CutoffNum / CutoffDen.
cutoff == float_of_ratio(CutoffNum, CutoffDen)

\* match_score after the pairs numbered k and above are added to the running
\* score, the (q_word, n_word) pairs taken in the order of the two nested
\* loops: when one word occurs in the other, the shorter length over the longer
\* is added.
RECURSIVE match_score_from(_, _, _, _)
match_score_from(query_words, name_words, k, running) ==
    IF k > Len(query_words) * Len(name_words)
    THEN running
    ELSE LET q_word == query_words[((k - 1) \div Len(name_words)) + 1]
             n_word == name_words[((k - 1) % Len(name_words)) + 1]
         IN  match_score_from(query_words, name_words, k + 1,
                IF is_substring(q_word, n_word) \/ is_substring(n_word, q_word)
                THEN float_add(running,
                        IF Len(n_word) >= Len(q_word)
                        THEN float_of_ratio(Len(q_word), Len(n_word))
                        ELSE float_of_ratio(Len(n_word), Len(q_word)))
                ELSE running)

\* normalized_score of a course name for a query (both already upper-cased).
normalized_score(query_text, name) ==
    LET query_words == split(query_text)
        name_words  == split(name)
    IN  IF query_words # <<>>
        THEN float_div(match_score_from(query_words, name_words, 1, float_zero),
                       Len(query_words))
        ELSE float_zero

\* The list results of fuzzy_search before it is sorted, from course i on: the
\* normalized score of each course, in list order (the course is its position).
RECURSIVE scores_from(_, _, _)
scores_from(ds, query_text, i) ==
    IF i > Len(ds)
    THEN <<>>
    ELSE <<normalized_score(upper(query_text), upper(ds[i].name))>>
            \o scores_from(ds, query_text, i + 1)

\* The last two lines of fuzzy_search: the courses sorted by score in
\* descending order (list.sort is stable, and with reverse=True it keeps the
\* list order of equal scores), cut to the first ten, of which those with a
\* score above 0.3 are returned.
select_results(score) ==
    LET Before(i, j) == greater(score[i], score[j]) \/ (score[i] = score[j] /\ i < j)
        sorted == [k \in 1..Len(score) |->
                     CHOOSE i \in DOMAIN score :
                        Cardinality({ j \in DOMAIN score : Before(j, i) }) = k - 1]
        top    == SubSeq(sorted, 1, IF Len(score) < TopResults THEN Len(score) ELSE TopResults)
        Passes(i) == greater(score[i], cutoff)
    IN  SelectSeq(top, Passes)

\* CourseScheduler.fuzzy_search: the positions of the returned courses, in the
\* order they are returned.
fuzzy_search(ds, query_text) == select_results(scores_from(ds, query_text, 1))

\* The characters of the queries: two letters, one of them in lower case as
\* well, and a blank.
QueryChars == {"A", "B", "a", " "}

\* Two queries longer than MaxLen: one whose score for the name ABABA is the
\* cutoff itself (3/5 for the first word, nothing for the second, over two
\* words), and one with a repeated word.
LongQueries ==
    { <<"A", "B", "A", " ", "B", "B", "B">>,
      <<"a", "b", " ", "A", "B", " ", "B">> }

\* The names of a course list for the search, spelled out as texts (the search
\* reads their characters); more than ten of them hold the word A or a word
\* that A occurs in.
FuzzyNames ==
    << <<"A", "B">>, <<"A">>, <<"B", "A", " ", "A", "B">>, <<"A", "B", "A">>,
       <<"a", " ", "b">>, <<"B">>, <<"B", "A", "B", "A">>, <<"A", "B">>,
       <<"A", " ", "B">>, <<"A", "b">>, <<"B", "A">>, <<"A", "A", "B">>,
       <<"A", "B", "A", "B", "A">>, <<"A", " ", " ", "A">> >>

FuzzyRows ==
    [k \in DOMAIN FuzzyNames |->
        [name |-> FuzzyNames[k], codigo |-> "CIN0140", horario |-> <<>>]]

\* The list, the list in reverse order, and its first three rows.
FuzzyCatalogs ==
    { FuzzyRows,
      [k \in DOMAIN FuzzyRows |-> FuzzyRows[Len(FuzzyRows) + 1 - k]],
      SubSeq(FuzzyRows, 1, 3) }

InitFuzzy ==
    \E rows \in FuzzyCatalogs :
        \E text \in Texts(QueryChars, MaxLen) \cup LongQueries :
            /\ csv_exists = TRUE
            /\ csv_file = rows
            /\ selections_file = NoFile
            /\ disciplinas = load_data(rows, NoFile).disciplinas
            /\ occupied_by = load_data(rows, NoFile).occupied_by
            /\ call = [op |-> "load", arg |-> 0, ret |-> TRUE, wr |-> "none"]
            /\ query = [NoQuery EXCEPT !.input = text]

\* CourseScheduler.fuzzy_search(query) is called on the drawn text.
FuzzySearch ==
    /\ query.fn = "none"
    /\ query' = [query EXCEPT !.fn = "fuzzy_search",
                              !.courses = fuzzy_search(disciplinas, query.input)]
    /\ UNCHANGED <<csv_exists, csv_file, selections_file, disciplinas, occupied_by, call>>

NextFuzzy == FuzzySearch

SpecFuzzy == InitFuzzy /\ [][NextFuzzy]_vars

\* ------------------------------------------------------------ the claims

\* The slots held by the selected courses of the current state.
SelectedSlots ==
    UNION { disciplinas[j].slots : j \in { k \in DOMAIN disciplinas : disciplinas[k].selected } }

\* A step of the engine that is the call add_course(self.disciplinas[i]).
IsAdd(i) == call'.op = "add" /\ call'.arg = i

\* A step of the engine that is the call remove_course(self.disciplinas[i]).
IsRemove(i) == call'.op = "remove" /\ call'.arg = i

\* No course's selected flag changes in the step.
SelectedKept ==
    /\ DOMAIN disciplinas' = DOMAIN disciplinas
    /\ \A j \in DOMAIN disciplinas : disciplinas'[j].selected = disciplinas[j].selected

\* No course's available flag changes in the step.
AvailableKept ==
    /\ DOMAIN disciplinas' = DOMAIN disciplinas
    /\ \A j \in DOMAIN disciplinas : disciplinas'[j].available = disciplinas[j].available

\* C1: after load and after every add_course / remove_course call, successful
\* or not, a course is available exactly when it is selected or none of its
\* slots is held by a selected course.
C1_AvailableIffSelectedOrFree ==
    \A i \in DOMAIN disciplinas :
        disciplinas[i].available
            <=> (disciplinas[i].selected \/ disciplinas[i].slots \cap SelectedSlots = {})

\* An add_course call has succeeded and left another course unavailable.
C1_Witness ==
    /\ call.op = "add" /\ call.ret
    /\ \E i \in DOMAIN disciplinas :
          ~disciplinas[i].available /\ ~disciplinas[i].selected
    /\ \E i \in DOMAIN disciplinas :
          ~disciplinas[i].selected /\ disciplinas[i].available

\* C2: add_course on an unselected course that get_conflicts reports conflicts
\* for returns False, and no selected flag and not the persisted list changes.
C2_ConflictingAddChangesNothing ==
    [][ \A i \in DOMAIN disciplinas :
          ( /\ IsAdd(i)
            /\ ~disciplinas[i].selected
            /\ DOMAIN get_conflicts(disciplinas, i, occupation_map(disciplinas)) # {} )
          => ( /\ call'.ret = FALSE
               /\ SelectedKept
               /\ selections_file' = selections_file ) ]_vars

\* The last call was an add_course refused for its conflicts.
C2_Witness ==
    /\ call.op = "add" /\ ~call.ret
    /\ call.arg \in DOMAIN disciplinas
    /\ ~disciplinas[call.arg].selected
    /\ DOMAIN get_conflicts(disciplinas, call.arg, occupied_by) # {}

\* C3: add_course on a course that is already selected returns False and
\* changes no selected flag, no available flag and not the persisted list.
C3_SelectedAddChangesNothing ==
    [][ \A i \in DOMAIN disciplinas :
          (IsAdd(i) /\ disciplinas[i].selected)
          => ( /\ call'.ret = FALSE
               /\ SelectedKept
               /\ AvailableKept
               /\ selections_file' = selections_file ) ]_vars

\* The last call was an add_course refused because the course was selected.
C3_Witness ==
    /\ call.op = "add" /\ ~call.ret
    /\ call.arg \in DOMAIN disciplinas
    /\ disciplinas[call.arg].selected

\* C4: when add_course has returned True the course is selected and available
\* and the occupation map lists it under every one of its slots.
C4_AddedCourseOccupiesItsSlots ==
    (call.op = "add" /\ call.ret)
    => ( /\ disciplinas[call.arg].selected
         /\ disciplinas[call.arg].available
         /\ \A slot \in disciplinas[call.arg].slots :
               /\ slot \in DOMAIN occupied_by
               /\ call.arg \in Range(occupied_by[slot]) )

\* add_course has returned True for a course with two slots or more, next to
\* another selected course.
C4_Witness ==
    /\ call.op = "add" /\ call.ret
    /\ Cardinality(disciplinas[call.arg].slots) >= 2
    /\ \E j \in DOMAIN disciplinas : j # call.arg /\ disciplinas[j].selected

\* C5 as stated: remove_course on an unselected course returns False and
\* changes no selected flag and not the persisted list; on a selected course
\* it returns True, clears that course's flag only, and the persisted list is
\* rewritten (it holds the names of the courses still selected).
C5_RemoveRewritesList ==
    [][ \A i \in DOMAIN disciplinas :
          IsRemove(i)
          => IF ~disciplinas[i].selected
             THEN /\ call'.ret = FALSE
                  /\ SelectedKept
                  /\ selections_file' = selections_file
             ELSE /\ call'.ret = TRUE
                  /\ ~disciplinas'[i].selected
                  /\ \A j \in DOMAIN disciplinas \ {i} :
                        disciplinas'[j].selected = disciplinas[j].selected
                  /\ selections_file' = JsonFile(selected_names(disciplinas')) ]_vars

\* C5 as amended: the same, but the persisted list is rewritten only when the
\* write succeeds; when open() raises the file is left as it was, and when the
\* dump raises the file no longer holds a list.  True is returned in all three.
C5_RemoveFrame ==
    [][ \A i \in DOMAIN disciplinas :
          IsRemove(i)
          => IF ~disciplinas[i].selected
             THEN /\ call'.ret = FALSE
                  /\ SelectedKept
                  /\ selections_file' = selections_file
             ELSE /\ call'.ret = TRUE
                  /\ ~disciplinas'[i].selected
                  /\ \A j \in DOMAIN disciplinas \ {i} :
                        disciplinas'[j].selected = disciplinas[j].selected
                  /\ call'.wr = "ok"
                        => selections_file' = JsonFile(selected_names(disciplinas'))
                  /\ call'.wr = "open_error" => selections_file' = selections_file
                  /\ call'.wr = "dump_error" => selections_file'.state = "corrupt"
                  /\ call'.wr \in WriteOutcomes ]_vars

\* remove_course has returned True, another section of the same codigo is
\* still selected, and the list on disk was rewritten with its name.
C5_Witness ==
    /\ call.op = "remove" /\ call.ret /\ call.wr = "ok"
    /\ \E j \in DOMAIN disciplinas :
          /\ j # call.arg
          /\ disciplinas[j].selected
          /\ disciplinas[j].codigo = disciplinas[call.arg].codigo
    /\ selections_file = JsonFile(selected_names(disciplinas))

\* The conflict map as the claim words it: every selected course of another
\* codigo that shares a slot with the candidate, with the shared slots.
SharedSlotsMap(i) ==
    [j \in { k \in DOMAIN disciplinas :
                /\ disciplinas[k].selected
                /\ disciplinas[k].codigo # disciplinas[i].codigo
                /\ disciplinas[k].slots \cap disciplinas[i].slots # {} }
       |-> disciplinas[j].slots \cap disciplinas[i].slots]

\* CIN0130 {2M1, 2M2} at position a is the only selected course and
\* CIN0131 {2M2, 2M3} is at position b.
Scenario(a, b) ==
    /\ disciplinas[a].codigo = "CIN0130"
    /\ disciplinas[a].slots = { <<"2", "M", "1">>, <<"2", "M", "2">> }
    /\ \A k \in DOMAIN disciplinas : disciplinas[k].selected <=> k = a
    /\ disciplinas[b].codigo = "CIN0131"
    /\ disciplinas[b].slots = { <<"2", "M", "2">>, <<"2", "M", "3">> }

\* C6: for every candidate, get_conflicts over the occupation map of the
\* current selection is exactly the map of the selected courses of another
\* codigo that share a slot with it to the shared slots; with CIN0130
\* {2M1, 2M2} selected and CIN0131 {2M2, 2M3} the candidate, it is
\* {CIN0130: {2M2}} and CIN0131 is not available.
C6_ConflictsAreSharedSlots ==
    /\ \A i \in DOMAIN disciplinas :
          get_conflicts(disciplinas, i, occupied_by) = SharedSlotsMap(i)
    /\ \A a, b \in DOMAIN disciplinas :
          Scenario(a, b)
          => /\ DOMAIN get_conflicts(disciplinas, b, occupied_by) = {a}
             /\ get_conflicts(disciplinas, b, occupied_by)[a] = { <<"2", "M", "2">> }
             /\ ~disciplinas[b].available

\* CIN0130 has just been added and CIN0131 is in the list, with a second
\* section of CIN0130 beside them.
C6_Witness ==
    /\ call.op = "add" /\ call.ret
    /\ \E a, b \in DOMAIN disciplinas : Scenario(a, b) /\ call.arg = a
    /\ Len(disciplinas) >= 3

\* The text is, in its entirety, one token <d><P><hh...>: a day digit 2-7, a
\* period letter, then one or more hour digits 1-6.
WellFormedToken(s) ==
    /\ Len(s) >= 3
    /\ s[1] \in DayChars
    /\ s[2] \in PeriodChars
    /\ \A k \in 3..Len(s) : s[k] \in HourChars

\* The slot set T of a well-formed token: its day and period with each hour digit.
TokenSlots(s) == { <<s[1], s[2], s[k]>> : k \in 3..Len(s) }

\* The slots of course i on the day of the token s.
SlotsOnDay(i, s) == { slot \in disciplinas[i].slots : slot[1] = s[1] }

\* C7: for a valid token with day d and slot set T, find_by_time_code returns
\* no error and, in course-list order, exactly the courses whose slots on day
\* d are non-empty and all in T.
C7_FindReturnsDaySubsets ==
    (query.fn = "find_by_time_code" /\ WellFormedToken(query.input))
    => /\ ~query.error
       /\ \A k \in DOMAIN query.courses : query.courses[k] \in DOMAIN disciplinas
       /\ \A k, l \in DOMAIN query.courses : k < l => query.courses[k] < query.courses[l]
       /\ \A i \in DOMAIN disciplinas :
             i \in Range(query.courses)
                <=> ( /\ SlotsOnDay(i, query.input) # {}
                      /\ SlotsOnDay(i, query.input) \subseteq TokenSlots(query.input) )

\* The search for the token 2M12 has returned two courses and left out a course
\* that reaches beyond 2M12, one with no class on day 2, and one with no class.
C7_Witness ==
    /\ query.fn = "find_by_time_code"
    /\ query.input = <<"2", "M", "1", "2">>
    /\ Len(query.courses) = 2
    /\ \E i \in DOMAIN disciplinas :
          /\ i \notin Range(query.courses)
          /\ { <<"2", "M", "1">>, <<"2", "M", "3">> } \subseteq disciplinas[i].slots
    /\ \E i \in DOMAIN disciplinas :
          i \notin Range(query.courses) /\ disciplinas[i].slots = {}

\* C8: find_by_time_code returns the empty list with an error for every text
\* that is not, in its entirety, one well-formed token.
C8_MalformedTokenIsAnError ==
    (query.fn = "find_by_time_code" /\ ~WellFormedToken(query.input))
    => (query.error /\ query.courses = <<>>)

\* C9 as stated: for a well-formed token, parse_codes returns as many slots as
\* the token has hour digits, each with the token's day and period.
C9_OneSlotPerDigit ==
    (query.fn = "parse_codes" /\ WellFormedToken(query.input))
    => /\ Cardinality(query.slots) = Len(query.input) - 2
       /\ \A slot \in query.slots :
             slot[1] = query.input[1] /\ slot[2] = query.input[2]

\* C9 as amended: for a well-formed token, parse_codes returns exactly one slot
\* per different hour digit of the token (the result is a set, so a digit
\* that occurs twice gives one slot), each with the token's day and period.
C9_OneSlotPerDistinctDigit ==
    (query.fn = "parse_codes" /\ WellFormedToken(query.input))
    => /\ Cardinality(query.slots)
            = Cardinality({ query.input[k] : k \in 3..Len(query.input) })
       /\ \A k \in 3..Len(query.input) :
             <<query.input[1], query.input[2], query.input[k]>> \in query.slots
       /\ \A slot \in query.slots :
             /\ Len(slot) = 3
             /\ slot[1] = query.input[1]
             /\ slot[2] = query.input[2]
             /\ \E k \in 3..Len(query.input) : slot[3] = query.input[k]

\* A well-formed token with two different hour digits has been parsed into
\* two slots.
C9_Witness ==
    /\ query.fn = "parse_codes"
    /\ WellFormedToken(query.input)
    /\ Len(query.input) = 4
    /\ Cardinality(query.slots) = 2

\* C10: every slot parse_codes returns, for any text, has a day in 2..7, a
\* period in {M, T, N} and an hour index in 1..6.
C10_ParsedSlotsAreValid ==
    query.fn = "parse_codes"
    => \A slot \in query.slots :
          /\ Len(slot) = 3
          /\ slot[1] \in DayChars
          /\ slot[2] \in PeriodChars
          /\ slot[3] \in HourChars

\* The occupation map of the current selection with course b selected too.
OccupancyWith(b) == occupation_map([disciplinas EXCEPT ![b].selected = TRUE])

\* get_conflicts for candidate a, against an occupancy in which b is selected,
\* reports b with the slot.
Reports(a, b, slot) ==
    /\ b \in DOMAIN get_conflicts(disciplinas, a, OccupancyWith(b))
    /\ slot \in get_conflicts(disciplinas, a, OccupancyWith(b))[b]

\* C11: conflict symmetry: when get_conflicts for candidate A against an
\* occupancy with B selected reports B with slot S, get_conflicts for
\* candidate B against an occupancy with A selected reports A with slot S.
C11_ConflictSymmetry ==
    \A a, b \in DOMAIN disciplinas :
        \A slot \in disciplinas[a].slots \cup disciplinas[b].slots :
            Reports(a, b, slot) => Reports(b, a, slot)

\* A selected course is reported, with a slot, as a conflict of a later,
\* unselected candidate, and the candidate is reported for it in turn.
C11_Witness ==
    /\ \E a, b \in DOMAIN disciplinas :
          /\ b < a
          /\ disciplinas[b].selected /\ ~disciplinas[a].selected
          /\ \E slot \in disciplinas[a].slots :
                /\ slot \in DOMAIN occupied_by
                /\ b \in DOMAIN get_conflicts(disciplinas, a, occupied_by)
                /\ slot \in get_conflicts(disciplinas, a, occupied_by)[b]
                /\ Reports(b, a, slot)
    /\ Len(disciplinas) >= 3

\* The names of the selected courses, as a set.
SelectedNameSet(ds) == { ds[i].name : i \in { j \in DOMAIN ds : ds[j].selected } }

RECURSIVE NamesOfSelectedFrom(_, _)
NamesOfSelectedFrom(ds, i) ==
    IF i > Len(ds)
    THEN <<>>
    ELSE (IF ds[i].selected THEN <<ds[i].name>> ELSE <<>>)
         \o NamesOfSelectedFrom(ds, i + 1)

\* C13: after an add_course or remove_course call that returns True, with the
\* write succeeding, the persisted list is the list of the names of exactly
\* the selected courses, in course-list order; a call that returns False
\* does not rewrite the persisted list.
C13_SavedListIsSelection ==
    [][ \A i \in DOMAIN disciplinas :
          (IsAdd(i) \/ IsRemove(i))
          => IF call'.ret
             THEN call'.wr = "ok"
                  => selections_file' = JsonFile(NamesOfSelectedFrom(disciplinas', 1))
             ELSE selections_file' = selections_file ]_vars

\* add_course has returned True and saved a list that names two sections of
\* one course, while a course listed between or after them is not selected.
C13_Witness ==
    /\ call.op = "add" /\ call.ret /\ call.wr = "ok"
    /\ Len(selections_file.names) = 2
    /\ selections_file.names[1] = selections_file.names[2]
    /\ \E i \in DOMAIN disciplinas : ~disciplinas[i].selected

C15_UpdateAvailabilityIdempotent ==
    LET first  == update_availability(disciplinas)
        second == update_availability(first.disciplinas)
    IN  /\ first.occupied_by = occupied_by
        /\ second.occupied_by = first.occupied_by
        /\ DOMAIN second.occupied_by = DOMAIN first.occupied_by
        /\ \A slot \in DOMAIN first.occupied_by :
              second.occupied_by[slot] = first.occupied_by[slot]
        /\ second.disciplinas = first.disciplinas
        /\ \A i \in DOMAIN disciplinas :
              second.disciplinas[i].available = first.disciplinas[i].available

\* The occupation map lists two selected courses under one slot, and a course
\* that is not selected is flagged as not available.
C15_Witness ==
    /\ \E slot \in DOMAIN occupied_by : Len(occupied_by[slot]) >= 2
    /\ \E i \in DOMAIN disciplinas :
          ~disciplinas[i].selected /\ ~disciplinas[i].available
    /\ call.op \in {"add", "remove"}

RECURSIVE gcd(_, _)
gcd(a, b) == IF b = 0 THEN a ELSE gcd(b, a % b)

\* Exact scores are fractions in lowest terms.
fraction(n, d) == [num |-> n \div gcd(n, d), den |-> d \div gcd(n, d)]

exceeds(x, y) == x.num * y.den > y.num * x.den

\* The sum, over the pairs numbered k and above of a query word and a name word
\* of which one occurs in the other, of min(len) / max(len).
RECURSIVE exact_sum_from(_, _, _)
exact_sum_from(query_words, name_words, k) ==
    IF k > Len(query_words) * Len(name_words)
    THEN fraction(0, 1)
    ELSE LET q    == query_words[((k - 1) \div Len(name_words)) + 1]
             n    == name_words[((k - 1) % Len(name_words)) + 1]
             this == IF is_substring(q, n) \/ is_substring(n, q)
                     THEN IF Len(n) >= Len(q) THEN fraction(Len(q), Len(n))
                                              ELSE fraction(Len(n), Len(q))
                     ELSE fraction(0, 1)
             rest == exact_sum_from(query_words, name_words, k + 1)
         IN  fraction(this.num * rest.den + rest.num * this.den, this.den * rest.den)

\* The normalized score C16 defines, as an exact number, of each course from
\* course i on: the sum divided by the number of query words.
RECURSIVE exact_scores_from(_, _, _)
exact_scores_from(ds, query_text, i) ==
    IF i > Len(ds)
    THEN <<>>
    ELSE LET query_words == split(upper(query_text))
             total == exact_sum_from(query_words, split(upper(ds[i].name)), 1)
         IN  <<IF query_words # <<>>
               THEN fraction(total.num, total.den * Len(query_words))
               ELSE fraction(0, 1)>>
                 \o exact_scores_from(ds, query_text, i + 1)

\* What C16 says of a returned list r, given the exact scores of all courses.
ExactResultsOrdered(r, score) ==
    /\ Len(r) <= TopResults
    /\ \A k \in DOMAIN r : exceeds(score[r[k]], fraction(CutoffNum, CutoffDen))
    /\ \A k, l \in DOMAIN r :
          k < l => /\ ~exceeds(score[r[l]], score[r[k]])
                   /\ score[r[k]] = score[r[l]] => r[k] < r[l]
    /\ \A i \in DOMAIN score \ Range(r) :
          \A k \in DOMAIN r : ~exceeds(score[i], score[r[k]])

\* The same of the scores as fuzzy_search computes them.
FuzzyResultsOrdered(r, score) ==
    /\ Len(r) <= TopResults
    /\ \A k \in DOMAIN r : greater(score[r[k]], cutoff)
    /\ \A k, l \in DOMAIN r :
          k < l => /\ ~greater(score[r[l]], score[r[k]])
                   /\ score[r[k]] = score[r[l]] => r[k] < r[l]
    /\ \A i \in DOMAIN score \ Range(r) :
          \A k \in DOMAIN r : ~greater(score[i], score[r[k]])

\* C16: fuzzy_search returns at most 10 courses, each with a normalized score
\* (the sum over the substring pairs of min(len) / max(len), divided by the
\* number of query words) above 0.3, in non-increasing order of score with
\* equal scores in the order of the course list, and no course left out has a
\* score greater than that of a returned course.
C16_FuzzySearchTopTen ==
    query.fn = "fuzzy_search" =>
        ExactResultsOrdered(query.courses, exact_scores_from(disciplinas, query.input, 1))

\* The four parts hold of the scores as the floats fuzzy_search computes.
FuzzySearchTopTenOfFloats ==
    query.fn = "fuzzy_search" =>
        FuzzyResultsOrdered(query.courses, scores_from(disciplinas, query.input, 1))

\* C17: from an absent selection file, in every state that add_course,
\* remove_course and restarts reach, no two selected courses of different codes
\* share a slot.
C17_NoSharedSlotAcrossCodes ==
    \A a, b \in DOMAIN disciplinas :
        (/\ disciplinas[a].selected
         /\ disciplinas[b].selected
         /\ disciplinas[a].codigo # disciplinas[b].codigo)
            => disciplinas[a].slots \cap disciplinas[b].slots = {}

====
